---- MODULE Spec2Model ----
(***************************************************************************)
(* Model of the careers-page scraper: the browser-driven program           *)
(* (AI_JobScraper.py) and the HTTP program with retries (test.py).         *)
(* One process; its position is pc.  The clock, the pages served and the   *)
(* filesystem are the environment.                                         *)
(***************************************************************************)
EXTENDS Integers, Sequences, FiniteSets, TLC

VARIABLES variant, pc, src, attempt, now, page, data, exc, files,
          current_time, next_hour, sleep_duration, browser,
          log, outcomes, cycle, faults, xai_cut

vars == <<variant, pc, src, attempt, now, page, data, exc, files,
          current_time, next_hour, sleep_duration, browser,
          log, outcomes, cycle, faults, xai_cut>>

-----------------------------------------------------------------------------
(* Bounds of the model *)

MaxCycles == 2
MaxFaults == 3
MaxStrLen == 2

-----------------------------------------------------------------------------
(* datetime / timedelta arithmetic *)

MicrosPerSecond == 1000000
SecondsPerMinute == 60
SecondsPerHour == 3600
SecondsPerDay == 86400

\* Python None where a string, a list or an element may stand
None == <<"None">>

\* datetime.timedelta(days, seconds, microseconds), normalised as Python does
timedelta(d, s, us) ==
    LET s2 == s + (us \div MicrosPerSecond)
    IN  [days |-> d + (s2 \div SecondsPerDay),
         seconds |-> s2 % SecondsPerDay,
         microseconds |-> us % MicrosPerSecond]

SecondOfDay(dt) ==
    dt.hour * SecondsPerHour + dt.minute * SecondsPerMinute + dt.second

\* datetime + timedelta
dt_add(dt, td) ==
    LET us == dt.microsecond + td.microseconds
        s  == SecondOfDay(dt) + td.seconds + (us \div MicrosPerSecond)
        sd == s % SecondsPerDay
    IN  [day |-> dt.day + td.days + (s \div SecondsPerDay),
         hour |-> sd \div SecondsPerHour,
         minute |-> (sd % SecondsPerHour) \div SecondsPerMinute,
         second |-> sd % SecondsPerMinute,
         microsecond |-> us % MicrosPerSecond]

\* datetime - datetime
dt_sub(a, b) ==
    LET us == MicrosPerSecond + a.microsecond - b.microsecond
        s  == SecondsPerDay + SecondOfDay(a) - SecondOfDay(b) - 1
                  + (us \div MicrosPerSecond)
    IN  [days |-> a.day - b.day - 1 + (s \div SecondsPerDay),
         seconds |-> s % SecondsPerDay,
         microseconds |-> us % MicrosPerSecond]

\* .replace(minute=0, second=0, microsecond=0)
replace_hour(dt) ==
    [dt EXCEPT !.minute = 0, !.second = 0, !.microsecond = 0]

\* mutant: a fixed one-hour period, without the replace
NextHour_FixedPeriod(t) == dt_add(t, timedelta(0, SecondsPerHour, 0))

\* (current_time + timedelta(hours=1)).replace(minute=0, second=0, microsecond=0)
NextHour(t) == replace_hour(dt_add(t, timedelta(0, SecondsPerHour, 0)))

\* strftime("%Y-%m-%d %H:%M:%S"): second precision, the microsecond is dropped
strftime(dt) ==
    [date |-> dt.day, hour |-> dt.hour, minute |-> dt.minute,
     second |-> dt.second]

\* datetime.date.today().strftime("%Y-%m-%d")
today(dt) == dt.day

\* order on datetimes
dt_le(a, b) ==
    \/ a.day < b.day
    \/ /\ a.day = b.day
       /\ \/ SecondOfDay(a) < SecondOfDay(b)
          \/ /\ SecondOfDay(a) = SecondOfDay(b)
             /\ a.microsecond <= b.microsecond

-----------------------------------------------------------------------------
(* Python strings (sequences of one-character strings) and number parsing *)

Digits == <<"0", "1", "2", "3", "4", "5", "6", "7", "8", "9">>

IsDigit(c) == \E i \in 1..Len(Digits) : Digits[i] = c

DigitVal(c) == (CHOOSE i \in 1..Len(Digits) : Digits[i] = c) - 1

IsSpace(c) == c = " "

Ok(v) == [ok |-> TRUE, val |-> v]

Raise(e) == [ok |-> FALSE, err |-> e]

RECURSIVE lstrip(_)
lstrip(s) == IF s # <<>> /\ IsSpace(Head(s)) THEN lstrip(Tail(s)) ELSE s

\* s[1..n] without its trailing whitespace
RECURSIVE rstrip_upto(_, _)
rstrip_upto(s, n) ==
    IF n > 0 /\ IsSpace(s[n]) THEN rstrip_upto(s, n - 1) ELSE SubSeq(s, 1, n)

rstrip(s) == rstrip_upto(s, Len(s))

\* str.strip()
strip(s) == rstrip(lstrip(s))

\* the first whitespace-delimited word of a string without leading whitespace
RECURSIVE first_word(_)
first_word(s) ==
    IF s = <<>> \/ IsSpace(Head(s)) THEN <<>>
    ELSE <<Head(s)>> \o first_word(Tail(s))

\* str.split()[0]: IndexError when the string holds no word
split0(s) ==
    LET t == lstrip(s)
    IN  IF t = <<>> THEN Raise("IndexError") ELSE Ok(first_word(t))

\* the number the digits s[1..n] write
RECURSIVE decimal_upto(_, _)
decimal_upto(s, n) ==
    IF n = 0 THEN 0 ELSE 10 * decimal_upto(s, n - 1) + DigitVal(s[n])

decimal(s) == decimal_upto(s, Len(s))

\* int(str) on a string of the model's alphabet (digits, comma, space,
\* letters): a ValueError unless it is a non-empty run of digits, possibly
\* surrounded by whitespace
py_int(s) ==
    LET t == strip(s)
    IN  IF t # <<>> /\ \A i \in 1..Len(t) : IsDigit(t[i])
        THEN Ok(decimal(t))
        ELSE Raise("ValueError")

\* ''.join(filter(str.isdigit, s))
RECURSIVE filter_digits(_)
filter_digits(s) ==
    IF s = <<>> THEN <<>>
    ELSE (IF IsDigit(Head(s)) THEN <<Head(s)>> ELSE <<>>)
             \o filter_digits(Tail(s))

\* int(text.split()[0])
int_first_word(text) ==
    LET w == split0(text)
    IN  IF w.ok THEN py_int(w.val) ELSE w

\* int(''.join(filter(str.isdigit, text)))
int_digits_only(text) == py_int(filter_digits(text))

\* d[k] = v on a dict
dict_set(d, k, v) ==
    [x \in (DOMAIN d) \cup {k} |-> IF x = k THEN v ELSE d[x]]

\* d.get(k, default)
dict_get(d, k, default) == IF k \in DOMAIN d THEN d[k] ELSE default

EmptyDict == [x \in {} |-> 0]

-----------------------------------------------------------------------------
(* Extraction strategies.  t is the clock when the extractor starts. *)

Snapshot(t, total, areas) ==
    Ok([time |-> strftime(t), total_jobs |-> total, job_areas |-> areas])

\* the loop of anthropic_data_extractor over the label elements
RECURSIVE anthropic_loop(_, _, _, _)
anthropic_loop(elements, t, total_jobs, job_areas) ==
    IF elements = <<>> THEN Snapshot(t, total_jobs, job_areas)
    ELSE LET e == Head(elements)
         IN  IF e.title # None /\ e.count # None
             THEN LET num_jobs == int_first_word(e.count)
                  IN  IF num_jobs.ok
                      THEN anthropic_loop(Tail(elements), t,
                               total_jobs + num_jobs.val,
                               dict_set(job_areas, strip(e.title),
                                        num_jobs.val))
                      ELSE num_jobs
             ELSE anthropic_loop(Tail(elements), t, total_jobs, job_areas)

anthropic_data_extractor(soup, t) ==
    anthropic_loop(soup.entries, t, 0, EmptyDict)

\* test.py: the same loop over the JobCategory containers
anthropic_extractor(soup, t) ==
    anthropic_loop(soup.entries, t, 0, EmptyDict)

\* the loop over the job listings of the OpenAI page
RECURSIVE openai_loop(_, _)
openai_loop(listings, job_areas) ==
    IF listings = <<>> THEN job_areas
    ELSE LET area == Head(listings)
         IN  IF area # None
             THEN openai_loop(Tail(listings),
                      dict_set(job_areas, strip(area),
                               dict_get(job_areas, strip(area), 0) + 1))
             ELSE openai_loop(Tail(listings), job_areas)

openai_areas(soup) ==
    IF soup.container.found
    THEN openai_loop(soup.container.listings, EmptyDict)
    ELSE EmptyDict

openai_data_extractor(soup, t) ==
    LET total_jobs == IF soup.counter # None
                      THEN int_first_word(soup.counter) ELSE Ok(0)
    IN  IF total_jobs.ok
        THEN Snapshot(t, total_jobs.val, openai_areas(soup))
        ELSE total_jobs

openai_extractor(soup, t) ==
    LET total_jobs == IF soup.counter # None
                      THEN int_digits_only(soup.counter) ELSE Ok(0)
    IN  IF total_jobs.ok
        THEN Snapshot(t, total_jobs.val, openai_areas(soup))
        ELSE total_jobs

\* range(2, 10): the section indices the xAI extractor visits
XaiFirst == 2
XaiStop == 10

\* xai_data_extractor: section i of the live DOM is dom.sections[i - 1];
\* any exception in the body of iteration i (an absent title or list, or an
\* interrupt delivered there: cut = i) ends the loop
RECURSIVE xai_loop(_, _, _, _, _, _)
xai_loop(sections, i, cut, t, total_jobs, job_areas) ==
    IF i >= XaiStop THEN Snapshot(t, total_jobs, job_areas)
    ELSE IF \/ i = cut
            \/ i - 1 > Len(sections)
            \/ sections[i - 1].title = None
            \/ sections[i - 1].items = None
         THEN Snapshot(t, total_jobs, job_areas)
         ELSE xai_loop(sections, i + 1, cut, t,
                  total_jobs + Len(sections[i - 1].items),
                  dict_set(job_areas, strip(sections[i - 1].title),
                           Len(sections[i - 1].items)))

xai_data_extractor(dom, t, cut) ==
    xai_loop(dom.sections, XaiFirst, cut, t, 0, EmptyDict)

\* test.py: every CareerSection container with a title and a list counts
RECURSIVE xai_sections(_, _, _, _)
xai_sections(sections, t, total_jobs, job_areas) ==
    IF sections = <<>> THEN Snapshot(t, total_jobs, job_areas)
    ELSE LET s == Head(sections)
         IN  IF s.title # None /\ s.items # None
             THEN xai_sections(Tail(sections), t,
                      total_jobs + Len(s.items),
                      dict_set(job_areas, strip(s.title), Len(s.items)))
             ELSE xai_sections(Tail(sections), t, total_jobs, job_areas)

xai_extractor(soup, t) == xai_sections(soup.sections, t, 0, EmptyDict)

-----------------------------------------------------------------------------
(* Dataset Store.  A file's content is [kind, body]:                        *)
(*   absent      no such file                                               *)
(*   empty       zero bytes                                                 *)
(*   garbage     text that is not JSON                                      *)
(*   truncated   the beginning of a JSON document, cut by a failed write     *)
(*   array       a JSON document that is a list                             *)
(*   object      a JSON record without a "data" field                       *)
(*   scalar_data a JSON record whose "data" is not a list                   *)
(*   dataset     {"data": body}, body the list of snapshots                 *)

Content(k, b) == [kind |-> k, body |-> b]

Absent == Content("absent", <<>>)

Dataset(list) == Content("dataset", list)

Companies == <<"anthropic", "openai", "xai">>

\* os.path.join(data_dir, f"{company_name}_{today}.json")
filename(company_name, t) == <<company_name, today(t)>>

\* os.path.exists(filename)
exists(fs, f) == fs[f].kind # "absent"

\* json.load(f)
json_load(content) ==
    IF content.kind \in {"empty", "garbage", "truncated"}
    THEN Raise("JSONDecodeError")
    ELSE Ok(content)

\* AI_JobScraper.py: the existing data, or {"data": []} when the file is
\* missing or json.load raises JSONDecodeError
load_existing(fs, f) ==
    IF exists(fs, f)
    THEN LET existing_data == json_load(fs[f])
         IN  IF existing_data.ok THEN existing_data.val ELSE Dataset(<<>>)
    ELSE Dataset(<<>>)

\* test.py: the same, the try block around the whole read
load_existing_http(fs, f) ==
    IF exists(fs, f)
    THEN LET existing == json_load(fs[f])
         IN  IF existing.ok THEN existing.val ELSE Dataset(<<>>)
    ELSE Dataset(<<>>)

\* mutant: the new snapshot replaces the list instead of extending it
append_data_Overwrite(existing, snapshot) ==
    CASE existing.kind = "dataset" -> Ok(Dataset(<<snapshot>>))
      [] existing.kind = "array" -> Raise("TypeError")
      [] existing.kind = "object" -> Raise("KeyError")
      [] existing.kind = "scalar_data" -> Raise("AttributeError")

\* existing["data"].append(data)
append_data(existing, snapshot) ==
    CASE existing.kind = "dataset" ->
             Ok(Dataset(Append(existing.body, snapshot)))
      [] existing.kind = "array" -> Raise("TypeError")
      [] existing.kind = "object" -> Raise("KeyError")
      [] existing.kind = "scalar_data" -> Raise("AttributeError")

\* what open(filename, "w") and json.dump can do to the file
IoOutcomes == {"ok", "open_denied", "full_partial"}

IoFailures == IoOutcomes \ {"ok"}

\* with open(filename, "w") as f: json.dump(existing, f, indent=4)
write_file(fs, f, document, io) ==
    CASE io = "ok" ->
             [ok |-> TRUE, err |-> "none",
              files |-> [fs EXCEPT ![f] = document]]
      [] io = "open_denied" ->
             [ok |-> FALSE, err |-> "OSError", files |-> fs]
      [] io = "full_partial" ->
             [ok |-> FALSE, err |-> "OSError",
              files |-> [fs EXCEPT ![f] = Content("truncated", <<>>)]]

\* save_data of the given program variant, called at clock t
save_data(v, fs, snapshot, company_name, t, io) ==
    LET f == filename(company_name, t)
        existing == IF v = "browser" THEN load_existing(fs, f)
                    ELSE load_existing_http(fs, f)
        merged == append_data(existing, snapshot)
    IN  IF merged.ok THEN write_file(fs, f, merged.val, io)
        ELSE [ok |-> FALSE, err |-> merged.err, files |-> fs]

-----------------------------------------------------------------------------
(* The environment: texts, pages, clock readings, prior file contents *)

Alphabet == {"4", "2", ",", " ", "x"}

Texts(n) == UNION {[1..k -> Alphabet] : k \in 0..n}

S_42 == <<"4", "2">>

S_1234_open_roles ==
    <<"1", ",", "2", "3", "4", " ", "o", "p", "e", "n", " ",
      "r", "o", "l", "e", "s">>

S_7_open_roles == <<"7", " ", "o", "p", "e", "n", " ", "r", "o", "l", "e", "s">>

CountTexts == Texts(MaxStrLen) \cup {S_42, S_1234_open_roles, S_7_open_roles}

L_Eng == <<"E">>
L_Sales == <<"S">>
L_EngPadded == <<" ", "E", " ">>

Labels == {L_Eng, L_Sales, L_EngPadded}

Entry(ti, c) == [title |-> ti, count |-> c]

GoodEntries == {Entry(L_Eng, S_42), Entry(L_Sales, S_7_open_roles)}

AnyEntries == {Entry(ti, c) : ti \in Labels \cup {None},
                              c \in CountTexts \cup {None}}

AnthropicPage(es) == [site |-> "anthropic", entries |-> es]

AnthropicPages ==
    {AnthropicPage(<<>>)}
        \cup {AnthropicPage(<<e>>) : e \in AnyEntries}
        \cup {AnthropicPage(<<e, g>>) : e \in AnyEntries, g \in GoodEntries}
        \cup {AnthropicPage(<<g, e>>) : e \in AnyEntries, g \in GoodEntries}

OpenaiPage(c, l) == [site |-> "openai", counter |-> c, container |-> l]

\* soup.find('div', class_='mb-xl'): the div and its listings, or nothing
Container(ls) == [found |-> TRUE, listings |-> ls]

NoContainer == [found |-> FALSE, listings |-> <<>>]

Listings == {NoContainer, Container(<<>>), Container(<<L_Eng>>),
             Container(<<L_Eng, None, L_EngPadded>>),
             Container(<<L_Eng, L_Sales>>)}

OpenaiPages ==
    {OpenaiPage(c, l) : c \in CountTexts \cup {None}, l \in Listings}

Section(ti, ul) == [title |-> ti, items |-> ul]

Lists == {None, <<>>, <<"li">>, <<"li", "li">>}

AnySections == {Section(ti, ul) : ti \in Labels \cup {None}, ul \in Lists}

XaiPage(ss) == [site |-> "xai", sections |-> ss]

\* more sections than range(2, 10) visits
NineSections == [i \in 1..9 |-> Section(<<Digits[i]>>, <<"li">>)]

XaiPages ==
    {XaiPage(<<>>), XaiPage(NineSections)}
        \cup {XaiPage(<<a>>) : a \in AnySections}
        \cup {XaiPage(<<a, b>>) : a \in AnySections, b \in AnySections}

\* every page the extractor of source i is tried on
AllPages(i) ==
    CASE i = 1 -> AnthropicPages
      [] i = 2 -> OpenaiPages
      [] i = 3 -> XaiPages

\* the page site i serves as a rule in a run of the whole program
UsualPage(i) ==
    CASE i = 1 -> AnthropicPage(<<Entry(L_Eng, S_42)>>)
      [] i = 2 -> OpenaiPage(S_42, Container(<<L_Eng>>))
      [] i = 3 -> XaiPage(<<Section(L_Eng, <<"li", "li">>),
                            Section(L_Sales, <<"li">>)>>)

\* the pages site i serves now and then
OddPages(i) ==
    CASE i = 1 -> {AnthropicPage(<<Entry(L_Eng, S_1234_open_roles)>>)}
      [] i = 2 -> {OpenaiPage(S_1234_open_roles, Container(<<L_Eng>>))}
      [] i = 3 -> {}

NoPage == [site |-> "none"]

\* the data_extractor passed to scrape_careers for source i
data_extractor(i, soup, t, cut) ==
    CASE i = 1 -> anthropic_data_extractor(soup, t)
      [] i = 2 -> openai_data_extractor(soup, t)
      [] i = 3 -> xai_data_extractor(soup, t, cut)

\* the extractor chosen by company_config["extractor"]
extractor(i, soup, t) ==
    CASE i = 1 -> anthropic_extractor(soup, t)
      [] i = 2 -> openai_extractor(soup, t)
      [] i = 3 -> xai_extractor(soup, t)

\* the extractors evaluated once on every page, at clock reading Epoch;
\* extracted(...) is the result of a call at clock reading t
Epoch == [day |-> 0, hour |-> 0, minute |-> 0, second |-> 0,
          microsecond |-> 0]

ExtractorTable ==
    [v \in {"browser", "http"} |->
        [i \in 1..Len(Companies) |->
            [p \in AllPages(i) \cup OddPages(i) \cup {UsualPage(i)} |->
                [cut \in 0..(XaiStop - 1) |->
                    IF v = "browser" THEN data_extractor(i, p, Epoch, cut)
                    ELSE extractor(i, p, Epoch)]]]]

extracted(v, i, p, t, cut) ==
    IF ExtractorTable[v][i][p][cut].ok
    THEN Ok([ExtractorTable[v][i][p][cut].val EXCEPT !.time = strftime(t)])
    ELSE ExtractorTable[v][i][p][cut]

DateTime(d, h, m, s, us) ==
    [day |-> d, hour |-> h, minute |-> m, second |-> s, microsecond |-> us]

Days == {1, 2}

T_14_37_12 == DateTime(1, 14, 37, 12, 0)

T_midnight_eve == DateTime(1, 23, 59, 59, 999999)

StartTimes == {T_14_37_12, T_midnight_eve}

\* every clock reading the schedule computation is tried on
AllTimes ==
    {DateTime(1, h, m, s, us) : h \in {0, 14, 23}, m \in {0, 37, 59},
                                s \in {0, 12, 59}, us \in {0, 1, 999999}}

TickSteps == {timedelta(0, 1, 0)}

S0 == [time |-> strftime(DateTime(1, 9, 0, 0, 0)), total_jobs |-> 5,
       job_areas |-> dict_set(dict_set(EmptyDict, L_Eng, 3), L_Sales, 2)]

\* every content save_data is tried on
AllContents ==
    {Absent, Content("empty", <<>>), Content("garbage", <<>>),
     Content("truncated", <<>>), Content("array", <<>>),
     Content("object", <<>>), Content("scalar_data", <<>>),
     Dataset(<<>>), Dataset(<<S0>>), Dataset(<<S0, S0>>)}

\* the content of the day's files when the program starts
PriorContents == {Absent, Content("array", <<>>), Dataset(<<S0>>)}

Filenames == {<<Companies[i], d>> : i \in 1..Len(Companies), d \in Days}

-----------------------------------------------------------------------------
(* State                                                                    *)
(*   variant   "browser": AI_JobScraper.py, "http": test.py                 *)
(*   pc        position of the process                                      *)
(*   src       index in Companies of the source being scraped               *)
(*   attempt   loop variable of scrape_company                              *)
(*   now       the wall clock                                               *)
(*   page      the content fetched for the source                           *)
(*   data      <<snapshot>> once the extractor returned, else <<>>          *)
(*   exc       the exception in flight, or "none"                           *)
(*   files     the data directory                                           *)
(*   browser   "created" / "quit" (variant browser), "absent" (http)        *)
(*   log       the fetches and backoff sleeps of the current orchestrator   *)
(*             call so far                                                  *)
(*   outcomes  the outcome of each orchestrator call of the current cycle   *)
(*   faults    what the environment did so far out of the ordinary: failed  *)
(*             fetches and writes, odd pages, clock jumps, swallowed        *)
(*             interrupts                                                   *)
(*   xai_cut   the xAI loop iteration that swallowed an interrupt, or 0     *)

Event(op, us) == [op |-> op, us |-> us]

Running == {"call", "get", "wait", "extract", "save", "except", "backoff",
            "returned", "compute", "sleep"}

NoDelta == timedelta(0, 0, 0)

Init ==
    /\ variant \in {"browser", "http"}
    /\ pc = "call"
    /\ src = 1
    /\ attempt = 0
    /\ now \in StartTimes
    /\ page = NoPage
    /\ data = <<>>
    /\ exc = "none"
    /\ \E c \in PriorContents :
           files = [f \in Filenames |-> IF f[2] = today(now) THEN c ELSE Absent]
    /\ current_time = now
    /\ next_hour = now
    /\ sleep_duration = NoDelta
    /\ browser = IF variant = "browser" THEN "created" ELSE "absent"
    /\ log = <<>>
    /\ outcomes = <<>>
    /\ cycle = 1
    /\ faults = 0
    /\ xai_cut = 0

sched == <<current_time, next_hour, sleep_duration>>

\* the wall clock jumps between the extractor's reading of it and
\* save_data's, or before the schedule is computed
Tick ==
    /\ pc \in {"save", "compute"}
    /\ faults < MaxFaults /\ faults' = faults + 1
    /\ \E d \in TickSteps : now' = dt_add(now, d)
    /\ UNCHANGED <<variant, pc, src, attempt, page, data, exc, files, sched,
                   browser, log, outcomes, cycle, xai_cut>>

\* the environment serves the usual page, or (a fault) the odd one
Serves(p) ==
    \/ p = UsualPage(src) /\ faults' = faults
    \/ p \in OddPages(src) /\ faults < MaxFaults /\ faults' = faults + 1

\* the environment lets the write through, or (a fault) makes it fail
Writes(io) ==
    \/ io = "ok" /\ faults' = faults
    \/ io \in IoFailures /\ faults < MaxFaults /\ faults' = faults + 1

-----------------------------------------------------------------------------
(* AI_JobScraper.py *)

\* scrape_careers is entered: the lines before the try block
ScrapeCareersStart ==
    /\ variant = "browser" /\ pc = "call"
    /\ pc' = "get"
    /\ UNCHANGED <<variant, src, attempt, now, page, data, exc, files, sched,
                   browser, log, outcomes, cycle, faults, xai_cut>>

\* browser.get(url): navigates, or raises
BrowserGet ==
    /\ variant = "browser" /\ pc = "get"
    /\ log' = Append(log, Event("get", 0))
    /\ \/ pc' = "wait" /\ exc' = exc /\ faults' = faults
       \/ /\ faults < MaxFaults /\ faults' = faults + 1
          /\ pc' = "except" /\ exc' = "WebDriverException"
    /\ UNCHANGED <<variant, src, attempt, now, page, data, files, sched,
                   browser, outcomes, cycle, xai_cut>>

\* WebDriverWait(browser, 20).until(wait_condition), then page_source
BrowserWait ==
    /\ variant = "browser" /\ pc = "wait"
    /\ log' = log
    /\ \/ /\ Serves(page')
          /\ pc' = "extract" /\ exc' = exc
       \/ /\ faults < MaxFaults /\ faults' = faults + 1
          /\ pc' = "except" /\ exc' = "TimeoutException"
          /\ page' = page
    /\ UNCHANGED <<variant, src, attempt, now, data, files, sched, browser,
                   outcomes, cycle, xai_cut>>

\* data = data_extractor(soup)
BrowserExtract ==
    /\ variant = "browser" /\ pc = "extract"
    /\ log' = log
    /\ LET r == extracted(variant, src, page, now, xai_cut)
       IN  IF r.ok
           THEN data' = <<r.val>> /\ pc' = "save" /\ exc' = exc
           ELSE data' = data /\ pc' = "except" /\ exc' = r.err
    /\ UNCHANGED <<variant, src, attempt, now, page, files, sched, browser,
                   outcomes, cycle, faults, xai_cut>>

\* save_data(data, company_name, data_dir), the final print and the return
BrowserSave ==
    /\ variant = "browser" /\ pc = "save"
    /\ log' = log
    /\ \E io \in IoOutcomes :
           LET r == save_data(variant, files, data[1], Companies[src], now, io)
           IN  /\ files' = r.files
               /\ IF r.ok
                  THEN /\ pc' = "returned" /\ exc' = exc
                       /\ outcomes' = Append(outcomes, "ok")
                  ELSE /\ pc' = "except" /\ exc' = r.err
                       /\ outcomes' = outcomes
               /\ IF r.ok \/ r.err = "OSError"
                  THEN Writes(io) ELSE io = "ok" /\ faults' = faults
    /\ UNCHANGED <<variant, src, attempt, now, page, data, sched, browser,
                   cycle, xai_cut>>

\* mutant: the handler starts the sequence over, up to three attempts
ScrapeCareersExcept_Retry ==
    /\ variant = "browser" /\ pc = "except"
    /\ exc' = "none"
    /\ IF Len(log) < 3
       THEN outcomes' = outcomes /\ pc' = "get"
       ELSE outcomes' = Append(outcomes, "fail") /\ pc' = "returned"
    /\ UNCHANGED <<variant, src, attempt, now, page, data, files, sched,
                   browser, log, cycle, faults, xai_cut>>

\* except Exception as e: print, and scrape_careers returns
ScrapeCareersExcept ==
    /\ variant = "browser" /\ pc = "except"
    /\ exc' = "none"
    /\ outcomes' = Append(outcomes, "fail")
    /\ pc' = "returned"
    /\ UNCHANGED <<variant, src, attempt, now, page, data, files, sched,
                   browser, log, cycle, faults, xai_cut>>

\* the locals of the orchestrator call that returned are gone
LocalsGone ==
    /\ log' = <<>>
    /\ page' = NoPage
    /\ data' = <<>>
    /\ attempt' = 0
    /\ xai_cut' = 0

\* the next of the three scrape_careers calls, or the end of the loop body
MainNextCall ==
    /\ variant = "browser" /\ pc = "returned"
    /\ IF src < Len(Companies)
       THEN src' = src + 1 /\ pc' = "call"
       ELSE src' = src /\ pc' = "compute"
    /\ LocalsGone
    /\ UNCHANGED <<variant, now, exc, files, sched, browser, outcomes,
                   cycle, faults>>

\* current_time, next_hour, sleep_duration at the end of a cycle
MainComputeSleep ==
    /\ variant = "browser" /\ pc = "compute"
    /\ current_time' = now
    /\ next_hour' = NextHour(now)
    /\ sleep_duration' = dt_sub(NextHour(now), now)
    /\ pc' = "sleep"
    /\ UNCHANGED <<variant, src, attempt, now, page, data, exc, files,
                   browser, log, outcomes, cycle, faults, xai_cut>>

\* time.sleep(sleep_duration) returns and the while loop starts over
MainSleep ==
    /\ variant = "browser" /\ pc = "sleep"
    /\ cycle < MaxCycles
    /\ now' = dt_add(now, sleep_duration)
    /\ cycle' = cycle + 1
    /\ src' = 1
    /\ outcomes' = <<>>
    /\ pc' = "call"
    /\ UNCHANGED <<variant, attempt, page, data, exc, files, sched, browser,
                   log, faults, xai_cut>>

\* iteration i of the xAI loop is entered: the sections before it are whole
xai_entered(sections, i) ==
    \A j \in XaiFirst..(i - 1) :
        /\ j - 1 <= Len(sections)
        /\ sections[j - 1].title # None
        /\ sections[j - 1].items # None

\* an interrupt delivered inside the try block of the xAI loop: the bare
\* except takes it for a missing section
InterruptSwallowed ==
    /\ variant = "browser" /\ pc = "extract" /\ src = 3
    /\ xai_cut = 0
    /\ faults < MaxFaults /\ faults' = faults + 1
    /\ \E i \in XaiFirst..(XaiStop - 1) :
           /\ xai_entered(page.sections, i)
           /\ xai_cut' = i
    /\ UNCHANGED <<variant, pc, src, attempt, now, page, data, exc, files,
                   sched, browser, log, outcomes, cycle>>

\* mutant: the process ends without running the finally block
Interrupt_NoFinally ==
    /\ variant = "browser" /\ pc \in Running
    /\ exc' = "KeyboardInterrupt"
    /\ pc' = "exited"
    /\ files' = files
    /\ LocalsGone
    /\ outcomes' = <<>>
    /\ UNCHANGED <<variant, src, now, sched, browser, cycle, faults>>

\* an interrupt delivered anywhere else in the try block of __main__:
\* no handler takes it, and a write under way is cut short
Interrupt ==
    /\ variant = "browser" /\ pc \in Running
    /\ exc' = "KeyboardInterrupt"
    /\ pc' = "finally"
    /\ \/ files' = files
       \/ /\ pc = "save"
          /\ files' = [files EXCEPT ![filename(Companies[src], now)] =
                                        Content("truncated", <<>>)]
    /\ LocalsGone
    /\ outcomes' = <<>>
    /\ UNCHANGED <<variant, src, now, sched, browser, cycle, faults>>

\* finally: browser.quit(), and the process ends with the exception
Finally ==
    /\ variant = "browser" /\ pc = "finally"
    /\ browser' = "quit"
    /\ pc' = "exited"
    /\ UNCHANGED <<variant, src, attempt, now, page, data, exc, files, sched,
                   log, outcomes, cycle, faults, xai_cut>>

-----------------------------------------------------------------------------
(* test.py *)

\* range(3)
MaxAttempts == 3

HalfSecondMicros == 500000

\* mutant: a constant delay between the attempts
Backoff_Constant(a) == HalfSecondMicros

\* 0.5 * (attempt + 1) seconds, in microseconds
Backoff(a) == HalfSecondMicros * (a + 1)

\* scrape_company is entered: the lines before the for loop
ScrapeCompanyStart ==
    /\ variant = "http" /\ pc = "call"
    /\ pc' = "get"
    /\ attempt' = 0
    /\ UNCHANGED <<variant, src, now, page, data, exc, files, sched, browser,
                   log, outcomes, cycle, faults, xai_cut>>

\* requests.get(...) and response.raise_for_status()
HttpGet ==
    /\ variant = "http" /\ pc = "get"
    /\ log' = Append(log, Event("get", 0))
    /\ \/ /\ Serves(page')
          /\ pc' = "extract" /\ exc' = exc
       \/ /\ faults < MaxFaults /\ faults' = faults + 1
          /\ pc' = "except" /\ exc' = "RequestException"
          /\ page' = page
    /\ UNCHANGED <<variant, src, attempt, now, data, files, sched, browser,
                   outcomes, cycle, xai_cut>>

\* soup = BeautifulSoup(...); data = <extractor>(soup)
HttpExtract ==
    /\ variant = "http" /\ pc = "extract"
    /\ log' = log
    /\ LET r == extracted(variant, src, page, now, xai_cut)
       IN  IF r.ok
           THEN data' = <<r.val>> /\ pc' = "save" /\ exc' = exc
           ELSE data' = data /\ pc' = "except" /\ exc' = r.err
    /\ UNCHANGED <<variant, src, attempt, now, page, files, sched, browser,
                   outcomes, cycle, faults, xai_cut>>

\* save_data(data, company_config["name"]), the print and return True
HttpSave ==
    /\ variant = "http" /\ pc = "save"
    /\ log' = log
    /\ \E io \in IoOutcomes :
           LET r == save_data(variant, files, data[1], Companies[src], now, io)
           IN  /\ files' = r.files
               /\ IF r.ok
                  THEN /\ pc' = "returned" /\ exc' = exc
                       /\ outcomes' = Append(outcomes, "ok")
                  ELSE /\ pc' = "except" /\ exc' = r.err
                       /\ outcomes' = outcomes
               /\ IF r.ok \/ r.err = "OSError"
                  THEN Writes(io) ELSE io = "ok" /\ faults' = faults
    /\ UNCHANGED <<variant, src, attempt, now, page, data, sched, browser,
                   cycle, xai_cut>>

\* mutant: the handler lets a write error through
HttpExcept_StoreErrorEscapes ==
    /\ variant = "http" /\ pc = "except"
    /\ IF exc = "OSError"
       THEN exc' = exc /\ outcomes' = outcomes /\ pc' = "exited"
       ELSE /\ exc' = "none"
            /\ IF attempt = MaxAttempts - 1
               THEN outcomes' = Append(outcomes, "fail") /\ pc' = "returned"
               ELSE outcomes' = outcomes /\ pc' = "backoff"
    /\ UNCHANGED <<variant, src, attempt, now, page, data, files, sched,
                   browser, log, cycle, faults, xai_cut>>

\* except Exception as e: return False on the last attempt, else back off
HttpExcept ==
    /\ variant = "http" /\ pc = "except"
    /\ exc' = "none"
    /\ IF attempt = MaxAttempts - 1
       THEN outcomes' = Append(outcomes, "fail") /\ pc' = "returned"
       ELSE outcomes' = outcomes /\ pc' = "backoff"
    /\ UNCHANGED <<variant, src, attempt, now, page, data, files, sched,
                   browser, log, cycle, faults, xai_cut>>

\* time.sleep(0.5 * (attempt + 1)) returns and the next attempt starts
HttpBackoff ==
    /\ variant = "http" /\ pc = "backoff"
    /\ now' = dt_add(now, timedelta(0, 0, Backoff(attempt)))
    /\ log' = Append(log, Event("sleep", Backoff(attempt)))
    /\ attempt' = attempt + 1
    /\ pc' = "get"
    /\ UNCHANGED <<variant, src, page, data, exc, files, sched, browser,
                   outcomes, cycle, faults, xai_cut>>

\* mutant: a failed company ends the for loop
LoopNextCompany_StopOnFailure ==
    /\ variant = "http" /\ pc = "returned"
    /\ IF src < Len(Companies) /\ outcomes[Len(outcomes)] = "ok"
       THEN src' = src + 1 /\ pc' = "call"
       ELSE src' = src /\ pc' = "compute"
    /\ LocalsGone
    /\ UNCHANGED <<variant, now, exc, files, sched, browser, outcomes,
                   cycle, faults>>

\* for company in COMPANY_CONFIGS: the next company, or the end of the loop
LoopNextCompany ==
    /\ variant = "http" /\ pc = "returned"
    /\ IF src < Len(Companies)
       THEN src' = src + 1 /\ pc' = "call"
       ELSE src' = src /\ pc' = "compute"
    /\ LocalsGone
    /\ UNCHANGED <<variant, now, exc, files, sched, browser, outcomes,
                   cycle, faults>>

\* current_time, next_hour, sleep_duration of main_loop
LoopComputeSleep ==
    /\ variant = "http" /\ pc = "compute"
    /\ current_time' = now
    /\ next_hour' = NextHour(now)
    /\ sleep_duration' = dt_sub(NextHour(now), now)
    /\ pc' = "sleep"
    /\ UNCHANGED <<variant, src, attempt, now, page, data, exc, files,
                   browser, log, outcomes, cycle, faults, xai_cut>>

\* time.sleep(sleep_duration) returns and the while loop starts over
LoopSleep ==
    /\ variant = "http" /\ pc = "sleep"
    /\ cycle < MaxCycles
    /\ now' = dt_add(now, sleep_duration)
    /\ cycle' = cycle + 1
    /\ src' = 1
    /\ outcomes' = <<>>
    /\ pc' = "call"
    /\ UNCHANGED <<variant, attempt, page, data, exc, files, sched, browser,
                   log, faults, xai_cut>>

\* except KeyboardInterrupt in __main__: the message, and the process ends
HttpInterrupt ==
    /\ variant = "http" /\ pc \in Running
    /\ exc' = "KeyboardInterrupt"
    /\ pc' = "exited"
    /\ \/ files' = files
       \/ /\ pc = "save"
          /\ files' = [files EXCEPT ![filename(Companies[src], now)] =
                                        Content("truncated", <<>>)]
    /\ LocalsGone
    /\ outcomes' = <<>>
    /\ UNCHANGED <<variant, src, now, sched, browser, cycle, faults>>

-----------------------------------------------------------------------------

Next ==
    \/ Tick
    \/ ScrapeCareersStart \/ BrowserGet \/ BrowserWait \/ BrowserExtract
    \/ BrowserSave \/ ScrapeCareersExcept \/ MainNextCall
    \/ MainComputeSleep \/ MainSleep
    \/ InterruptSwallowed \/ Interrupt \/ Finally
    \/ ScrapeCompanyStart \/ HttpGet \/ HttpExtract \/ HttpSave
    \/ HttpExcept \/ HttpBackoff \/ LoopNextCompany
    \/ LoopComputeSleep \/ LoopSleep \/ HttpInterrupt

Spec == Init /\ [][Next]_vars

\* the process takes its steps: one thread of control, every blocking call
\* (fetch, readiness wait, sleep) returns after a bounded time
Proc ==
    \/ ScrapeCareersStart \/ BrowserGet \/ BrowserWait \/ BrowserExtract
    \/ BrowserSave \/ ScrapeCareersExcept \/ MainNextCall
    \/ MainComputeSleep \/ MainSleep \/ Finally
    \/ ScrapeCompanyStart \/ HttpGet \/ HttpExtract \/ HttpSave
    \/ HttpExcept \/ HttpBackoff \/ LoopNextCompany
    \/ LoopComputeSleep \/ LoopSleep

FairSpec == Init /\ [][Next]_vars /\ WF_vars(Proc)

-----------------------------------------------------------------------------
(* The extractors on every page *)

InitExtract ==
    /\ variant \in {"browser", "http"}
    /\ pc = "extract"
    /\ src \in 1..Len(Companies)
    /\ attempt = 0
    /\ now = T_14_37_12
    /\ page \in AllPages(src)
    /\ data = <<>>
    /\ exc = "none"
    /\ files = [f \in Filenames |-> Absent]
    /\ current_time = now
    /\ next_hour = now
    /\ sleep_duration = NoDelta
    /\ browser = IF variant = "browser" THEN "created" ELSE "absent"
    /\ log = <<Event("get", 0)>>
    /\ outcomes = [i \in 1..(src - 1) |-> "ok"]
    /\ cycle = 1
    /\ faults = 0
    /\ xai_cut = 0

NextExtract == BrowserExtract \/ HttpExtract

SpecExtract == InitExtract /\ [][NextExtract]_vars

(* The schedule computation at every clock reading *)

InitClock ==
    /\ variant \in {"browser", "http"}
    /\ pc = "compute"
    /\ src = Len(Companies)
    /\ attempt = 0
    /\ now \in AllTimes
    /\ page = NoPage
    /\ data = <<>>
    /\ exc = "none"
    /\ files = [f \in Filenames |-> Absent]
    /\ current_time = now
    /\ next_hour = now
    /\ sleep_duration = NoDelta
    /\ browser = IF variant = "browser" THEN "created" ELSE "absent"
    /\ log = <<>>
    /\ outcomes = [i \in 1..Len(Companies) |-> "ok"]
    /\ cycle = 1
    /\ faults = 0
    /\ xai_cut = 0

NextClock == MainComputeSleep \/ LoopComputeSleep \/ MainSleep \/ LoopSleep

SpecClock == InitClock /\ [][NextClock]_vars

-----------------------------------------------------------------------------

TypeOK ==
    /\ variant \in {"browser", "http"}
    /\ pc \in Running \cup {"finally", "exited"}
    /\ src \in 1..Len(Companies)
    /\ attempt \in 0..(MaxAttempts - 1)
    /\ Len(data) <= 1
    /\ faults \in 0..MaxFaults
    /\ cycle \in 1..MaxCycles
    /\ \A f \in Filenames : files[f].kind \in
           {"absent", "empty", "garbage", "truncated", "array", "object",
            "scalar_data", "dataset"}

-----------------------------------------------------------------------------
(* Properties *)

\* the file save_data works on when called now for the current source
TodayFile == filename(Companies[src], now)

\* this step is the save_data call of the orchestrator, run to its end
SaveStep == pc = "save" /\ pc' \in {"returned", "except"}

LastOutcome == IF outcomes = <<>> THEN "none" ELSE outcomes[Len(outcomes)]

\* C1: a successful save_data leaves the day's file with the list it held
\* followed by the new snapshot: the earlier entries in place and unaltered,
\* one entry added; with no file beforehand the list is the new snapshot
\* alone.  No other file changes.
C1_AppendKeepsOrder ==
    [][(pc = "save" /\ pc' = "returned") =>
           LET old == files[TodayFile]
               new == files'[TodayFile]
           IN  /\ new.kind = "dataset"
               /\ old.kind = "dataset" =>
                      /\ Len(new.body) = Len(old.body) + 1
                      /\ \A i \in 1..Len(old.body) : new.body[i] = old.body[i]
                      /\ new.body[Len(new.body)] = data[1]
               /\ old.kind = "absent" => new.body = <<data[1]>>
               /\ \A g \in Filenames \ {TodayFile} : files'[g] = files[g]]_vars

C1_Witness ==
    /\ pc = "returned" /\ LastOutcome = "ok"
    /\ files[TodayFile].kind = "dataset"
    /\ Len(files[TodayFile].body) >= 2
    /\ files[TodayFile].body[1] = S0
    /\ files[TodayFile].body[Len(files[TodayFile].body)] = data[1]

\* C2 (as claimed): whatever unparseable content the day's file holds,
\* save_data, its write going through, does not raise and leaves a file
\* with the new snapshot alone
C2_CorruptFileNeverBlocks ==
    [][(SaveStep /\ exc' # "OSError"
            /\ files[TodayFile].kind \notin {"absent", "dataset"}) =>
           /\ pc' = "returned"
           /\ files'[TodayFile] = Dataset(<<data[1]>>)]_vars

\* C3: a scrape_company call whose every fetch failed made exactly three
\* fetches, slept 0.5 s after the first and 1.0 s after the second and not
\* after the third, returned a failure with no exception in flight, and
\* main_loop goes on to the next company (or ends the cycle after the last)
C3_ThreeFetchesThenNext ==
    [][(variant = "http" /\ pc = "returned" /\ page = NoPage) =>
           /\ log = <<Event("get", 0), Event("sleep", 500000),
                      Event("get", 0), Event("sleep", 1000000),
                      Event("get", 0)>>
           /\ LastOutcome = "fail"
           /\ exc = "none"
           /\ \/ pc' = "exited"
              \/ src < Len(Companies) /\ pc' = "call" /\ src' = src + 1
              \/ src = Len(Companies) /\ pc' = "compute"]_vars

C3_Witness ==
    /\ variant = "http" /\ pc = "returned" /\ page = NoPage
    /\ Len(log) = 5
    /\ LastOutcome = "fail"

Errors == {"WebDriverException", "TimeoutException", "RequestException",
           "ValueError", "IndexError", "TypeError", "KeyError",
           "AttributeError", "OSError"}

\* C5: an error of a source is in flight only inside its orchestrator call,
\* on its way to the handler; the cycle ends with every configured source
\* attempted; and the process stops for an interrupt only
C5_FailureIsolation ==
    /\ exc \in Errors => pc = "except"
    /\ pc = "returned" => exc = "none"
    /\ pc \in {"compute", "sleep"} =>
           /\ exc = "none"
           /\ Len(outcomes) = Len(Companies)
    /\ pc \in {"finally", "exited"} => exc = "KeyboardInterrupt"

C5_Witness ==
    /\ pc = "compute"
    /\ outcomes[1] = "fail"
    /\ outcomes[2] = "ok"
    /\ outcomes[3] = "ok"

\* C6: once the schedule is computed, next_hour is an exact hour boundary,
\* the first one strictly after current_time, and the sleep lasts more than
\* nothing and at most an hour and ends on next_hour
C6_ScheduleAlignment ==
    pc = "sleep" =>
        /\ next_hour.minute = 0
        /\ next_hour.second = 0
        /\ next_hour.microsecond = 0
        /\ \/ /\ next_hour.day = current_time.day
              /\ next_hour.hour = current_time.hour + 1
           \/ /\ current_time.hour = 23
              /\ next_hour.day = current_time.day + 1
              /\ next_hour.hour = 0
        /\ sleep_duration.days = 0
        /\ sleep_duration.seconds > 0 \/ sleep_duration.microseconds > 0
        /\ \/ sleep_duration.seconds < SecondsPerHour
           \/ /\ sleep_duration.seconds = SecondsPerHour
              /\ sleep_duration.microseconds = 0
        /\ dt_add(current_time, sleep_duration) = next_hour

C6_Witness ==
    /\ pc = "sleep"
    /\ current_time = T_14_37_12
    /\ next_hour = DateTime(1, 15, 0, 0, 0)
    /\ sleep_duration = timedelta(0, 1368, 0)

\* C7: in AI_JobScraper.py the browser is quit exactly when the process has
\* ended: never while the loop runs, and always once an interrupt has left
\* the loop and the process is over
C7_BrowserReleased ==
    variant = "browser" =>
        /\ pc \in Running => browser = "created"
        /\ pc = "exited" => browser = "quit"
        /\ browser = "quit" => pc = "exited"

C7_Witness ==
    /\ variant = "browser" /\ pc = "exited" /\ browser = "quit"
    /\ cycle = 2

\* C8 (as claimed): when the write of save_data fails, the day's file holds
\* the snapshot list it held before the call
C8_FailedWriteKeepsFile ==
    [][(SaveStep /\ exc' = "OSError") =>
           files'[TodayFile] = files[TodayFile]]_vars

\* the count a text stands for when its decoration is stripped: the commas
\* of its first word and the words after it
no_commas(w) == SelectSeq(w, LAMBDA c : c # ",")

PlainNumber(text) ==
    /\ split0(text).ok
    /\ py_int(no_commas(split0(text).val)).ok

NoNumber(text) == filter_digits(text) = <<>>

StrippedValue(text) == py_int(no_commas(split0(text).val)).val

\* the areas of a page when unparseable counts are skipped
RECURSIVE tolerant_areas(_, _)
tolerant_areas(elements, job_areas) ==
    IF elements = <<>> THEN job_areas
    ELSE LET e == Head(elements)
         IN  IF e.title # None /\ e.count # None /\ PlainNumber(e.count)
             THEN tolerant_areas(Tail(elements),
                      dict_set(job_areas, strip(e.title),
                               StrippedValue(e.count)))
             ELSE tolerant_areas(Tail(elements), job_areas)

\* the claim speaks of counts that are a number with decoration, or no
\* number at all
CoveredCount(c) == c = None \/ PlainNumber(c) \/ NoNumber(c)

\* C9 (as claimed): on a page whose counts are decorated numbers or no
\* numbers, the extraction does not fail, a decorated count yields its
\* number ("1,234 open roles": 1234, "42": 42), and an entry whose count is
\* no number is left out while the others are extracted
C9_NumericParsing ==
    /\ (pc \in {"save", "except"} /\ src = 1
            /\ \A i \in 1..Len(page.entries) :
                   CoveredCount(page.entries[i].count)) =>
           /\ pc = "save"
           /\ data[1].job_areas = tolerant_areas(page.entries, EmptyDict)
    /\ (pc \in {"save", "except"} /\ src = 2
            /\ CoveredCount(page.counter)) =>
           /\ pc = "save"
           /\ (page.counter # None /\ PlainNumber(page.counter)) =>
                  data[1].total_jobs = StrippedValue(page.counter)

InCall == {"get", "wait", "extract", "save", "except", "backoff"}

\* C10: the sources are attempted one at a time in configuration order,
\* each once per cycle; the wait starts only once the last source's attempt
\* has returned; a cycle starts only from the wait, with the first source,
\* the clock at or past the computed hour boundary; and unless interrupted a
\* running cycle reaches the wait and a wait is followed by the next cycle
C10_SchedulerCycle ==
    /\ [](/\ pc \in InCall \cup {"call"} => Len(outcomes) = src - 1
          /\ pc = "returned" => Len(outcomes) = src
          /\ pc \in {"compute", "sleep"} =>
                 src = Len(Companies) /\ Len(outcomes) = Len(Companies))
    /\ [][(pc' = "sleep" /\ pc # "sleep") => pc = "compute"]_vars
    /\ [][cycle' # cycle =>
              /\ pc = "sleep" /\ pc' = "call"
              /\ cycle' = cycle + 1
              /\ src' = 1 /\ outcomes' = <<>>
              /\ dt_le(next_hour, now')]_vars
    /\ (pc = "call" /\ src = 1) ~> (pc = "sleep" \/ pc = "exited")
    /\ (pc = "sleep" /\ cycle < MaxCycles) ~> (pc = "call" \/ pc = "exited")

C10_Witness ==
    /\ cycle = 2 /\ pc = "sleep"
    /\ Len(outcomes) = Len(Companies)
    /\ dt_le(DateTime(1, 15, 0, 0, 0), now)

\* C11 (as claimed): every snapshot a file <source>_<D>.json holds carries a
\* "time" whose date part is D, whatever the clock did between the
\* extractor's reading of it and save_data's
C11_FileDayConsistency ==
    \A f \in Filenames :
        files[f].kind = "dataset" =>
            \A k \in 1..Len(files[f].body) : files[f].body[k].time.date = f[2]

\* the sum of the counts a job_areas mapping holds
RECURSIVE sum_values(_)
sum_values(d) ==
    IF DOMAIN d = {} THEN 0
    ELSE LET k == CHOOSE x \in DOMAIN d : TRUE
         IN  d[k] + sum_values([x \in (DOMAIN d) \ {k} |-> d[x]])

\* C12 (as claimed): a snapshot returned by the anthropic or the xai
\* extractor has total_jobs equal to the sum of the values of job_areas, on
\* every page, two entries with the same area label included
C12_TotalIsSumOfAreas ==
    (pc = "save" /\ src \in {1, 3}) =>
        data[1].total_jobs = sum_values(data[1].job_areas)

\* an interrupt is delivered in this step: to the main loop, or inside the
\* try block of the xAI loop
InterruptDelivered ==
    \/ exc # "KeyboardInterrupt" /\ exc' = "KeyboardInterrupt"
    \/ xai_cut = 0 /\ xai_cut' # 0

\* C13 (as claimed): in AI_JobScraper.py an interrupt delivered anywhere in
\* the run loop is never absorbed: the step that delivers it leaves the loop
\* for the cleanup, no further source or cycle starts, and no snapshot of an
\* extraction the interrupt cut short is persisted
C13_InterruptNeverAbsorbed ==
    [][variant = "browser" =>
           /\ InterruptDelivered => pc' = "finally"
           /\ xai_cut # 0 => pc' \in {"finally", "exited"} /\ files' = files
      ]_vars

====
